---- MODULE Spec2Model ----
(***************************************************************************)
(* Slot search, prep planning and event creation of the calendar           *)
(* assistant (calendar_manager.py, intelligent_scheduler.py) and time-zone *)
(* resolution of the agent (agent.py).                                     *)
(*                                                                         *)
(* Time is counted in minutes.  Minute 0 is a Monday 00:00 UTC.  A zoned   *)
(* datetime is a record [wall, off, aware]: the wall-clock minute count in *)
(* its zone, the zone's UTC offset and whether it carries a zone at all.   *)
(* As in Python, comparison is by instant (wall - off) and arithmetic and  *)
(* replace act on the wall clock.  Zones have fixed offsets.               *)
(***************************************************************************)
EXTENDS Integers, Sequences, FiniteSets, TLC

VARIABLES now, calendar, nextId, search, plan, created, zone, scan, monitor

vars == <<now, calendar, nextId, search, plan, created, zone, scan, monitor>>

---------------------------------------------------------------------------
(* Bounds of the model *)

MaxEvents == 2
MaxTicks == 2
MaxCreated == 2

---------------------------------------------------------------------------
(* Calendar arithmetic *)

DayMinutes == 1440
HourMinutes == 60

\* Friday 07:40 UTC of the second week: the clock at start
NowStart == 11 * DayMinutes + 7 * HourMinutes + 40
TickStep == 5 * HourMinutes + 15

DT(wall, off) == [wall |-> wall, off |-> off, aware |-> TRUE]
Inst(d) == d.wall - d.off
AsTimezone(d, off) == DT(Inst(d) + off, off)
Plus(d, minutes) == [d EXCEPT !.wall = d.wall + minutes]
Hour(d) == (d.wall % DayMinutes) \div HourMinutes
Minute(d) == d.wall % HourMinutes
Weekday(d) == (d.wall \div DayMinutes) % 7
DayIndex(d) == d.wall \div DayMinutes
ReplaceHM(d, h, m) == [d EXCEPT !.wall = DayIndex(d) * DayMinutes + h * HourMinutes + m]
ReplaceMinute(d, m) == [d EXCEPT !.wall = d.wall - Minute(d) + m]
Before(a, b) == Inst(a) < Inst(b)
AtOrBefore(a, b) == Inst(a) <= Inst(b)

\* ZoneInfo(name); an unknown name falls back to UTC
ZoneOffset(z) ==
    CASE z = "Asia/Kolkata" -> 330
      [] z = "America/Los_Angeles" -> -480
      [] OTHER -> 0

\* _normalize_datetime: a naive value is read as UTC
Naive(wall) == [wall |-> wall, off |-> 0, aware |-> FALSE]
normalize_datetime(d) == IF ~d.aware THEN DT(d.wall, 0) ELSE d

\* A date string: the day it names and whether strptime('%Y-%m-%d') accepts
\* it.  Strings order by day, a malformed one right after the well-formed
\* string of the same day.
DateStr(d, ok) == [d |-> d, ok |-> ok]
strftime_date(dt) == DateStr(DayIndex(dt), TRUE)
StrLess(a, b) == a.d < b.d \/ (a.d = b.d /\ a.ok /\ ~b.ok)

---------------------------------------------------------------------------
(* The calendar backend *)

\* An event with a dateTime start/end carries instants (UTC minutes) and the
\* UTC offset its strings are written with; a date-only event carries the
\* midnight of its first and of its following day.
Event(id, summary, kind, start, end, off) ==
    [id |-> id, summary |-> summary, kind |-> kind, start |-> start, end |-> end,
     off |-> off]

RECURSIVE Perms(_)
Perms(S) ==
    IF S = {} THEN {<<>>}
    ELSE UNION {{<<x>> \o p : p \in Perms(S \ {x})} : x \in S}

\* orderBy='startTime': any order of the events that ascends by start
StartOrders(S) ==
    {p \in Perms(S) : \A i \in 1..(Len(p) - 1) : p[i].start <= p[i + 1].start}

TakeAll(s, n) == s

\* s[:n]
Take(s, n) == IF Len(s) <= n THEN s ELSE SubSeq(s, 1, n)

\* Body of a local variable that holds value: value is computed one time,
\* as the assignment of the code computes it
Once(value, Body(_)) == CHOOSE r \in {Body(v) : v \in {value}} : TRUE

MaxResults == 250

\* get_events: the events of [start_time, end_time), at most max_results;
\* an HttpError of the backend (also raised for an empty range) yields []
get_events(ord, fail, start_time, end_time) ==
    LET tmin == Inst(normalize_datetime(start_time))
        tmax == Inst(normalize_datetime(end_time))
        InRange(e) == e.end > tmin /\ e.start < tmax
    IN  IF fail \/ tmin >= tmax THEN <<>>
        ELSE Take(SelectSeq(ord, InRange), MaxResults)

\* get_busy_times: (start, end) of every event; a date-only value parses to
\* a naive midnight
get_busy_times(ord, fail, start_time, end_time) ==
    LET events == get_events(ord, fail, start_time, end_time)
        Parse(e, v) == IF e.kind = "dateTime" THEN DT(v + e.off, e.off) ELSE Naive(v)
    IN  [i \in 1..Len(events) |->
            <<Parse(events[i], events[i].start), Parse(events[i], events[i].end)>>]

---------------------------------------------------------------------------
(* CalendarManager.suggest_time_slots *)

WorkStartHour == 9
WorkEndHour == 18
ReasonableStartHour == 7
ReasonableEndHour == 22
SlotStep == 30
MovableMinutes == 120
MaxAvailable == 10
MaxConflicts == 5
MaxResolutions == 3
ResolutionSources == 3

\* busy_times.sort(key=lambda x: x[0]): stable, ascending by start instant
RECURSIVE InsertByStart(_, _)
InsertByStart(sorted, b) ==
    IF sorted = <<>> THEN <<b>>
    ELSE IF Before(b[1], Head(sorted)[1]) THEN <<b>> \o sorted
    ELSE <<Head(sorted)>> \o InsertByStart(Tail(sorted), b)

RECURSIVE SortByStart(_)
SortByStart(s) ==
    IF s = <<>> THEN <<>>
    ELSE InsertByStart(SortByStart(SubSeq(s, 1, Len(s) - 1)), s[Len(s)])

OverlapsStartOnly(current, slot_end, b) ==
    AtOrBefore(b[1], current) /\ Before(current, b[2])

\* current < busy_end and slot_end > busy_start
Overlaps(current, slot_end, b) == Before(current, b[2]) /\ Before(b[1], slot_end)

LastConflict(busy, current, slot_end) ==
    LET hits == {i \in 1..Len(busy) : Overlaps(current, slot_end, busy[i])}
    IN  IF hits = {} THEN 0 ELSE CHOOSE i \in hits : \A j \in hits : i >= j

\* the loop over busy_times with its break: index of the first overlapping
\* busy interval, 0 when there is none
FirstConflict(busy, current, slot_end) ==
    LET hits == {i \in 1..Len(busy) : Overlaps(current, slot_end, busy[i])}
    IN  IF hits = {} THEN 0 ELSE CHOOSE i \in hits : \A j \in hits : i <= j

IsReasonableAlways(user_start) == TRUE

\* 7 <= user_start.hour < 22
IsReasonable(user_start) ==
    ReasonableStartHour <= Hour(user_start) /\ Hour(user_start) < ReasonableEndHour

SlotDictOneStep(start, duration, user_off) ==
    [target_slot |-> <<start, Plus(start, SlotStep)>>,
     user_slot |-> <<AsTimezone(start, user_off), AsTimezone(Plus(start, SlotStep), user_off)>>,
     is_reasonable |-> IsReasonable(AsTimezone(start, user_off))]

\* the dictionary appended for a candidate: target slot, user slot, flag
SlotDict(start, duration, user_off) ==
    [target_slot |-> <<start, Plus(start, duration)>>,
     user_slot |-> <<AsTimezone(start, user_off), AsTimezone(Plus(start, duration), user_off)>>,
     is_reasonable |-> IsReasonable(AsTimezone(start, user_off))]

SameDayAtNine(current) == ReplaceHM(current, WorkStartHour, 0)

\* current += timedelta(days=1); current = current.replace(hour=9, minute=0)
NextDayAtNine(current) == ReplaceHM(Plus(current, DayMinutes), WorkStartHour, 0)

SkipsDayWeekendsAllowed(current, p) ==
    \/ Weekday(current) \in p.excluded_days
    \/ strftime_date(current) \in p.excluded_dates
    \/ Hour(current) >= WorkEndHour

\* the checks that send the days_ahead loop to the next day at 09:00
SkipsDay(current, p) ==
    \/ Weekday(current) \in p.excluded_days
    \/ strftime_date(current) \in p.excluded_dates
    \/ Weekday(current) >= 5
    \/ Hour(current) >= WorkEndHour

\* the iterations of the days_ahead loop that follow each other in 30-minute
\* steps from cur on.  cur has passed the loop guard and the hour checks, so
\* it is a candidate; the following ones go on while current < end_date and
\* the hour is below 18 (weekday and date do not change meanwhile)
StepsPerDay == ((WorkEndHour - WorkStartHour) * HourMinutes) \div SlotStep
CeilDiv(a, b) == (a + b - 1) \div b
Steps(cur, p) ==
    LET to_evening == CeilDiv(WorkEndHour * HourMinutes - (cur.wall % DayMinutes), SlotStep)
        to_end == CeilDiv(Inst(p.end_date) - Inst(cur), SlotStep)
        n == IF to_end < to_evening THEN to_end ELSE to_evening
    IN  IF n < 1 THEN 1 ELSE n

\* the days_ahead loop: the candidate starts it reaches, in order
RECURSIVE RangeScan(_, _)
RangeScan(current, p) ==
    IF ~Before(current, p.end_date) THEN <<>>
    ELSE IF SkipsDay(current, p) THEN RangeScan(NextDayAtNine(current), p)
    ELSE LET cur == IF Hour(current) < WorkStartHour
                    THEN ReplaceHM(current, WorkStartHour, 0) ELSE current
             n == Steps(cur, p)
         IN  [k \in 1..n |-> Plus(cur, (k - 1) * SlotStep)]
                \o RangeScan(Plus(cur, n * SlotStep), p)

\* the inner loop of one listed date: the candidate starts it reaches
RECURSIVE DayScan(_, _, _)
DayScan(current, day_end, p) ==
    IF ~Before(current, day_end) THEN <<>>
    ELSE IF Before(day_end, Plus(current, p.duration)) THEN <<>>
    ELSE <<current>> \o DayScan(Plus(current, SlotStep), day_end, p)

\* "Round up to next 30 min"
RoundUp(current) ==
    IF Minute(current) >= 30 THEN Plus(ReplaceMinute(current, 0), HourMinutes)
    ELSE IF Minute(current) > 0 THEN ReplaceMinute(current, 30)
    ELSE current

\* the loop over specific_dates; a string that does not parse is skipped
RECURSIVE SpecificScan(_, _)
SpecificScan(dates, p) ==
    IF dates = <<>> THEN <<>>
    ELSE IF ~Head(dates).ok THEN SpecificScan(Tail(dates), p)
    ELSE LET nine == DT(Head(dates).d * DayMinutes + WorkStartHour * HourMinutes, p.off)
             current == IF Before(nine, p.start_date) THEN RoundUp(p.start_date) ELSE nine
             day_end == DT(Head(dates).d * DayMinutes + WorkEndHour * HourMinutes, p.off)
         IN  DayScan(current, day_end, p) \o SpecificScan(Tail(dates), p)

ClassifyAnyConflict(candidates, p) ==
    LET Hit(c) == FirstConflict(p.busy, c, Plus(c, p.duration))
        Free(c) == Hit(c) = 0
        Movable(c) == Hit(c) /= 0
        free == SelectSeq(candidates, Free)
        movable == SelectSeq(candidates, Movable)
    IN  [available |-> [i \in 1..Len(free) |-> SlotDict(free[i], p.duration, p.user_off)],
         conflict |-> [i \in 1..Len(movable) |->
             [slot |-> SlotDict(movable[i], p.duration, p.user_off),
              conflict_with |-> p.busy[Hit(movable[i])],
              note |-> "Short event - might be movable"]]]

\* the body shared by both loops: the candidates that become available slots
\* and the ones that become conflict records, each in scan order
Classify(candidates, p) ==
    LET Hit(c) == FirstConflict(p.busy, c, Plus(c, p.duration))
        Free(c) == Hit(c) = 0
        Movable(c) ==
            /\ Hit(c) /= 0
            /\ Inst(p.busy[Hit(c)][2]) - Inst(p.busy[Hit(c)][1]) < MovableMinutes
        free == SelectSeq(candidates, Free)
        movable == SelectSeq(candidates, Movable)
    IN  [available |-> [i \in 1..Len(free) |-> SlotDict(free[i], p.duration, p.user_off)],
         conflict |-> [i \in 1..Len(movable) |->
             [slot |-> SlotDict(movable[i], p.duration, p.user_off),
              conflict_with |-> p.busy[Hit(movable[i])],
              note |-> "Short event - might be movable"]]]

\* conflict resolution suggestions for the first conflict records
RECURSIVE Resolutions(_, _)
Resolutions(conflicts, p) ==
    IF conflicts = <<>> THEN <<>>
    ELSE LET c == Head(conflicts)
             before_suggestion == Plus(c.conflict_with[1], 0 - p.duration)
             after_suggestion == c.conflict_with[2]
             before ==
                 IF /\ AtOrBefore(p.start_date, before_suggestion)
                    /\ Hour(before_suggestion) >= WorkStartHour
                    /\ Hour(before_suggestion) < WorkEndHour
                 THEN <<[type |-> "before_conflict",
                         suggested_time |-> SlotDict(before_suggestion, p.duration, p.user_off),
                         conflict_with |-> c.conflict_with]>>
                 ELSE <<>>
             after ==
                 IF /\ AtOrBefore(Plus(after_suggestion, p.duration), p.end_date)
                    /\ Hour(after_suggestion) >= WorkStartHour
                    /\ Hour(after_suggestion) < WorkEndHour
                 THEN <<[type |-> "after_conflict",
                         suggested_time |-> SlotDict(after_suggestion, p.duration, p.user_off),
                         conflict_with |-> c.conflict_with]>>
                 ELSE <<>>
         IN  before \o after \o Resolutions(Tail(conflicts), p)

MinDate(dates) ==
    CHOOSE x \in {dates[i] : i \in DOMAIN dates} :
        \A y \in {dates[i] : i \in DOMAIN dates} : ~StrLess(y, x)
MaxDate(dates) ==
    CHOOSE x \in {dates[i] : i \in DOMAIN dates} :
        \A y \in {dates[i] : i \in DOMAIN dates} : ~StrLess(x, y)

\* suggest_time_slots.  clock is datetime.now; ord and fail are the backend's
\* answer order and failure; start_date is <<>> for None.  Next to the three
\* returned lists the record keeps the locals they are cut from
\* (available_slots, conflict_slots, all the resolutions) and busy_times,
\* the list the search compared against.
suggest_time_slots(clock, ord, fail, duration_minutes, start_date, days_ahead, timezone_str, excluded_dates, excluded_days, user_timezone, specific_dates) ==
    LET off == ZoneOffset(timezone_str)
        user_off == ZoneOffset(user_timezone)
        start == IF start_date = <<>>
                 THEN ReplaceHM(AsTimezone(DT(clock, 0), off), WorkStartHour, 0)
                 ELSE AsTimezone(normalize_datetime(start_date[1]), off)
        parsed == specific_dates /= <<>> /\ MinDate(specific_dates).ok
                    /\ MaxDate(specific_dates).ok
        dates == IF parsed THEN specific_dates ELSE <<>>
        end_date == IF parsed
                    THEN DT(MaxDate(specific_dates).d * DayMinutes + DayMinutes - 1, off)
                    ELSE Plus(start, days_ahead * DayMinutes)
        raw == get_busy_times(ord, fail, start, end_date)
        busy == SortByStart([i \in 1..Len(raw) |->
                    <<normalize_datetime(raw[i][1]), normalize_datetime(raw[i][2])>>])
        p == [duration |-> duration_minutes, start_date |-> start, end_date |-> end_date,
              off |-> off, user_off |-> user_off, busy |-> busy,
              excluded_dates |-> {excluded_dates[i] : i \in DOMAIN excluded_dates},
              excluded_days |-> {excluded_days[i] : i \in DOMAIN excluded_days}]
        found == Classify(IF dates /= <<>> THEN SpecificScan(dates, p)
                          ELSE RangeScan(start, p), p)
        resolutions == Resolutions(Take(found.conflict, ResolutionSources), p)
    IN  [available |-> Take(found.available, MaxAvailable),
         conflict_possible |-> Take(found.conflict, MaxConflicts),
         conflict_resolutions |-> Take(resolutions, MaxResolutions),
         available_slots |-> found.available,
         conflict_slots |-> found.conflict,
         all_resolutions |-> resolutions,
         busy_times |-> busy,
         start_date |-> start,
         end_date |-> end_date]

---------------------------------------------------------------------------
(* State, inputs and actions *)

\* days of the second and third week of the model's calendar
Friday == 7 + 4
Saturday == 7 + 5
Monday == 7 + 7

At(day, h, m) == day * DayMinutes + h * HourMinutes + m

\* events the calendar owner may enter: <<start, minutes>>
OwnerEvents ==
    {<<At(Friday, 9, 0), 30>>, <<At(Friday, 9, 30), 180>>,
     <<At(Monday, 9, 0), 30>>,
     <<At(Friday, 13, 0), 110>>}

\* all-day events the owner may enter: <<midnight of the day, minutes>>
AllDayEvents == {<<At(Friday, 0, 0), DayMinutes>>}

SearchDurations == {30, 60}
StartDateChoices ==
    {<<>>, <<DT(At(Friday, 9, 0), 0)>>, <<Naive(At(Friday, 14, 10))>>}
DaysAheadChoices == {1, 3}
ZoneChoices ==
    {<<"UTC", "UTC">>, <<"Asia/Kolkata", "America/Los_Angeles">>,
     <<"America/Los_Angeles", "UTC">>}
ExclusionChoices == {<<<<>>, <<>>>>, <<<<DateStr(Monday, TRUE)>>, <<4>>>>}
SpecificDateChoices ==
    {<<DateStr(Friday, TRUE)>>,
     <<DateStr(Saturday, TRUE)>>,
     <<DateStr(Monday, TRUE), DateStr(Friday, TRUE)>>,
     <<DateStr(Friday, TRUE), DateStr(Saturday, FALSE), DateStr(Monday, TRUE)>>,
     <<DateStr(Monday, TRUE), DateStr(Monday, FALSE)>>}

NoSearch ==
    [called |-> FALSE, now |-> 0, failed |-> FALSE, duration |-> 0, start_given |-> <<>>,
     days_ahead |-> 0, timezone_str |-> "UTC", user_timezone |-> "UTC",
     excluded_dates |-> <<>>, excluded_days |-> <<>>, specific_dates |-> <<>>,
     result |-> [available |-> <<>>, conflict_possible |-> <<>>,
                 conflict_resolutions |-> <<>>, available_slots |-> <<>>,
                 conflict_slots |-> <<>>, all_resolutions |-> <<>>, busy_times |-> <<>>,
                 start_date |-> DT(0, 0), end_date |-> DT(0, 0)]]

NoPlan ==
    [called |-> FALSE, now |-> 0, failed |-> FALSE,
     parsed_request |-> [duration_minutes |-> 0],
     prep_plan |-> [total_prep_hours |-> 0, prep_tasks |-> <<>>], days_ahead |-> 0,
     result |-> [raised |-> FALSE, suggestions |-> <<>>, event_slots |-> <<>>,
                 search_start_date |-> DT(0, 0)]]
NoCreate ==
    [called |-> FALSE, now |-> 0, fetch_failed |-> FALSE, title |-> "",
     start_time |-> DT(0, 0), end_time |-> DT(0, 0),
     check_duplicates |-> FALSE, check_past |-> FALSE, outcome |-> "", before |-> {}]

NoZone ==
    [called |-> FALSE, timezone_input |-> "", backend |-> [kind |-> "absent", content |-> ""],
     result |-> "", consulted |-> FALSE, raised |-> "none"]

\* no scan loop is running
NoScan ==
    [running |-> FALSE, kind |-> "none", loop |-> "none", pass |-> 0, iterations |-> 0,
     first |-> DT(0, 0), current |-> DT(0, 0), end_date |-> DT(0, 0),
     dates |-> <<>>, visited |-> <<>>, outcome |-> <<>>,
     p |-> [duration |-> 0, start_date |-> DT(0, 0), end_date |-> DT(0, 0), off |-> 0,
            busy |-> <<>>, raw |-> <<>>, excluded_dates |-> {}, excluded_days |-> {}]]

\* a CalendarMonitor whose processed_events file does not exist yet
NewMonitor ==
    [called |-> FALSE, processed_events |-> {}, checks |-> 0, creations |-> {},
     auto_create |-> FALSE, before |-> {},
     fetched |-> {}, detected |-> {}, attempted |-> {}, processed |-> {}, errors |-> {}]

Init ==
    /\ now = NowStart
    /\ calendar = {}
    /\ nextId = 1
    /\ search = NoSearch
    /\ plan = NoPlan
    /\ created = NoCreate
    /\ zone = NoZone
    /\ scan = NoScan
    /\ monitor = NewMonitor

\* no call is in progress and no result waits for the caller
Idle ==
    /\ ~search.called /\ ~plan.called /\ ~created.called /\ ~zone.called
    /\ scan.loop = "none" /\ ~monitor.called

\* the clock advances
Tick ==
    /\ Idle
    /\ now < NowStart + MaxTicks * TickStep
    /\ now' = now + TickStep
    /\ UNCHANGED <<calendar, nextId, search, plan, created, zone, scan, monitor>>

\* the calendar owner enters an event outside the program
AddEvent ==
    /\ Idle
    /\ Cardinality(calendar) < MaxEvents
    /\ \E e \in OwnerEvents \cup AllDayEvents :
         /\ \A c \in calendar : c.id /= <<"owner", e[1], e[2]>>
         /\ calendar' = calendar \cup
              {Event(<<"owner", e[1], e[2]>>, "Meeting",
                     IF e \in AllDayEvents THEN "date" ELSE "dateTime",
                     e[1], e[1] + e[2], 0)}
    /\ UNCHANGED <<now, nextId, search, plan, created, zone, scan, monitor>>

\* one call of suggest_time_slots
SuggestTimeSlots(days_ahead, specific_dates) ==
    \E ord \in StartOrders(calendar), fail \in BOOLEAN, duration \in SearchDurations,
       start_date \in StartDateChoices, zones \in ZoneChoices, excl \in ExclusionChoices :
        /\ Idle
        /\ search' =
             [called |-> TRUE, now |-> now, failed |-> fail, duration |-> duration,
              start_given |-> start_date, days_ahead |-> days_ahead,
              timezone_str |-> zones[1], user_timezone |-> zones[2],
              excluded_dates |-> excl[1], excluded_days |-> excl[2],
              specific_dates |-> specific_dates,
              result |-> suggest_time_slots(now, ord, fail, duration, start_date,
                             days_ahead, zones[1], excl[1], excl[2], zones[2],
                             specific_dates)]
        /\ UNCHANGED <<now, calendar, nextId, plan, created, zone, scan, monitor>>

SuggestInRange == \E days_ahead \in DaysAheadChoices : SuggestTimeSlots(days_ahead, <<>>)
SuggestOnDates == \E dates \in SpecificDateChoices : SuggestTimeSlots(14, dates)

\* the caller takes the result of the call; the program is synchronous, so
\* the next call starts only after that
Return ==
    /\ ~Idle
    /\ search' = NoSearch
    /\ plan' = NoPlan
    /\ created' = NoCreate
    /\ zone' = NoZone
    /\ scan' = NoScan
    /\ monitor' = [NewMonitor EXCEPT !.processed_events = monitor.processed_events,
                                     !.checks = monitor.checks,
                                     !.creations = monitor.creations]
    /\ UNCHANGED <<now, calendar, nextId>>

Next == Tick \/ AddEvent \/ SuggestInRange \/ SuggestOnDates \/ Return

Spec == Init /\ [][Next]_vars

\* events of a calendar shared from elsewhere, whose hours are working hours
\* in UTC but lie at an edge of the day in another zone: <<start, minutes>>
SharedEvents == {<<At(Friday, 17, 0), 30>>, <<At(Friday, 12, 0), 30>>}

\* such an event appears on the calendar
AddSharedEvent ==
    /\ Idle
    /\ Cardinality(calendar) < MaxEvents
    /\ \E e \in SharedEvents :
         /\ \A c \in calendar : c.id /= <<"shared", e[1], e[2]>>
         /\ calendar' = calendar \cup
              {Event(<<"shared", e[1], e[2]>>, "Meeting", "dateTime", e[1], e[1] + e[2], 0)}
    /\ UNCHANGED <<now, nextId, search, plan, created, zone, scan, monitor>>

NextShared == Tick \/ AddSharedEvent \/ SuggestInRange \/ SuggestOnDates \/ Return

SpecShared == Init /\ [][NextShared]_vars

---------------------------------------------------------------------------
(* IntelligentScheduler *)

PrepLookbackDays == 3
PrepBufferMinutes == 60
PrepGapMinutes == 60
MinLeadDays == 2
MaxEventSlots == 5

Later(a, b) == IF Before(a, b) THEN b ELSE a

\* comparing an aware datetime with a naive one raises TypeError
IsNaive(b) == ~b[1].aware \/ ~b[2].aware
SortRaises(busy) ==
    /\ \E i \in DOMAIN busy : IsNaive(busy[i])
    /\ \E i \in DOMAIN busy : ~IsNaive(busy[i])
CompareRaises(busy, current, slot_end) ==
    \E i \in DOMAIN busy :
        /\ IsNaive(busy[i]) = current.aware
        /\ \A j \in 1..(i - 1) : ~Overlaps(current, slot_end, busy[j])

\* the loop of _find_prep_slot: <<>> is None, <<start, end>> a slot,
\* <<"TypeError">> an exception
RECURSIVE PrepScan(_, _, _, _)
PrepScan(current, end_date, duration, busy) ==
    IF ~Before(current, end_date) THEN <<>>
    ELSE IF Weekday(current) >= 5
    THEN PrepScan(NextDayAtNine(current), end_date, duration, busy)
    ELSE IF Hour(current) >= WorkEndHour
    THEN PrepScan(NextDayAtNine(current), end_date, duration, busy)
    ELSE LET cur == IF Hour(current) < WorkStartHour
                    THEN ReplaceHM(current, WorkStartHour, 0) ELSE current
             slot_end == Plus(cur, duration)
         IN  IF CompareRaises(busy, cur, slot_end) THEN <<"TypeError">>
             ELSE IF FirstConflict(busy, cur, slot_end) = 0 THEN <<cur, slot_end>>
             ELSE PrepScan(Plus(cur, SlotStep), end_date, duration, busy)

FindPrepSlotAtStart(ord, fail, start_date, end_date, duration_minutes) ==
    IF Before(start_date, end_date)
    THEN <<start_date, Plus(start_date, duration_minutes)>> ELSE <<>>

\* _find_prep_slot: <<>> is None, <<start, end>> a slot, <<"TypeError">> an
\* exception of the sort or of a comparison
find_prep_slot(ord, fail, start_date, end_date, duration_minutes) ==
    LET raw == get_busy_times(ord, fail, start_date, end_date)
    IN  IF SortRaises(raw) THEN <<"TypeError">>
        ELSE PrepScan(start_date, end_date, duration_minutes, SortByStart(raw))

\* a loop over prep_tasks that drops a task for which no slot is found
RECURSIVE PrepForTasksDropMissing(_, _, _, _, _, _)
PrepForTasksDropMissing(tasks, current_prep_time, prep_start_date, prep_end_date, ord, fail) ==
    IF tasks = <<>> THEN <<>>
    ELSE LET task == Head(tasks)
             Rest(prep_slot) ==
                 IF Len(prep_slot) = 2
                 THEN <<[task |-> task, slot |-> prep_slot, suggested_time |-> <<>>]>>
                        \o PrepForTasksDropMissing(Tail(tasks),
                               Plus(prep_slot[2], PrepGapMinutes),
                               prep_start_date, prep_end_date, ord, fail)
                 ELSE PrepForTasksDropMissing(Tail(tasks), current_prep_time,
                                              prep_start_date, prep_end_date, ord, fail)
         IN  Once(find_prep_slot(ord, fail, current_prep_time, prep_end_date,
                                 task.duration_hours * HourMinutes), Rest)

\* the loop over prep_tasks for one event slot
RECURSIVE PrepForTasks(_, _, _, _, _, _)
PrepForTasks(tasks, current_prep_time, prep_start_date, prep_end_date, ord, fail) ==
    IF tasks = <<>> THEN <<>>
    ELSE LET task == Head(tasks)
             Rest(prep_slot) ==
                 IF Len(prep_slot) = 1 THEN <<[task |-> task, slot |-> prep_slot,
                                               suggested_time |-> <<>>]>>
                 ELSE IF Len(prep_slot) = 2
                 THEN <<[task |-> task, slot |-> prep_slot, suggested_time |-> <<>>]>>
                        \o PrepForTasks(Tail(tasks), Plus(prep_slot[2], PrepGapMinutes),
                                        prep_start_date, prep_end_date, ord, fail)
                 ELSE <<[task |-> task, slot |-> <<>>,
                         suggested_time |-> <<strftime_date(prep_start_date), "(flexible)">>]>>
                        \o PrepForTasks(Tail(tasks), current_prep_time,
                                        prep_start_date, prep_end_date, ord, fail)
         IN  Once(find_prep_slot(ord, fail, current_prep_time, prep_end_date,
                                 task.duration_hours * HourMinutes), Rest)

\* the suggestion built for one event slot
SuggestionFor(slot_data, clock, prep_plan, ord, fail) ==
    LET event_start == slot_data.target_slot[1]
        event_end == slot_data.target_slot[2]
        nowdt == DT(clock, 0)
        ideal_prep_start == Plus(event_start, 0 - PrepLookbackDays * DayMinutes)
        first_start == Later(nowdt, ideal_prep_start)
        first_end == Plus(event_start, 0 - PrepBufferMinutes)
        prep_start_date == IF Before(first_end, first_start) THEN nowdt ELSE first_start
        prep_end_date == IF Before(first_end, first_start) /\ Before(first_end, nowdt)
                         THEN event_start ELSE first_end
    IN  [event_slot |-> <<event_start, event_end>>,
         prep_slots |-> PrepForTasks(prep_plan.prep_tasks, prep_start_date,
                                     prep_start_date, prep_end_date, ord, fail),
         total_prep_hours |-> prep_plan.total_prep_hours]

LeadAlwaysMinimum(total_prep_hours) == IF total_prep_hours > 0 THEN MinLeadDays ELSE 0

\* min_lead_days: max(2, int(total_prep_hours / 2)) if any prep is needed
LeadDays(total_prep_hours) ==
    LET half == total_prep_hours \div 2
    IN  IF total_prep_hours > 0
        THEN (IF half > MinLeadDays THEN half ELSE MinLeadDays)
        ELSE 0

\* suggest_schedule_with_prep; raised tells that a TypeError left the call,
\* search_start_date is the start handed to the search for the event
suggest_schedule_with_prep(clock, ord, fail, parsed_request, prep_plan, days_ahead) ==
    LET total_prep_hours == prep_plan.total_prep_hours
        min_lead_days == LeadDays(total_prep_hours)
        search_start_date == DT(clock + min_lead_days * DayMinutes, 0)
        ForSlots(event_slots) ==
            LET tops == Take(event_slots.available, MaxEventSlots)
                all == [i \in 1..Len(tops) |->
                           SuggestionFor(tops[i], clock, prep_plan, ord, fail)]
                raised == \E i \in DOMAIN all : \E j \in DOMAIN all[i].prep_slots :
                              Len(all[i].prep_slots[j].slot) = 1
            IN  [raised |-> raised, suggestions |-> IF raised THEN <<>> ELSE all,
                 event_slots |-> event_slots.available,
                 search_start_date |-> search_start_date]
    IN  Once(suggest_time_slots(clock, ord, fail, parsed_request.duration_minutes,
                 <<search_start_date>>, days_ahead, "UTC", <<>>, <<>>, "UTC", <<>>),
             ForSlots)

PrepTask(name, hours) == [task |-> name, duration_hours |-> hours]

EventDurationChoices == {30}
PrepPlanChoices ==
    {[total_prep_hours |-> 0, prep_tasks |-> <<>>],
     [total_prep_hours |-> 2, prep_tasks |-> <<PrepTask("Research", 2)>>],
     [total_prep_hours |-> 2,
      prep_tasks |-> <<PrepTask("Research", 1), PrepTask("Talking points", 1)>>],
     [total_prep_hours |-> 3,
      prep_tasks |-> <<PrepTask("Research", 2), PrepTask("Talking points", 1)>>],
     [total_prep_hours |-> 3,
      prep_tasks |-> <<PrepTask("Research", 1), PrepTask("Talking points", 1),
                       PrepTask("Questions", 1)>>],
     [total_prep_hours |-> 6,
      prep_tasks |-> <<PrepTask("Research", 3), PrepTask("Talking points", 3)>>]}

\* one call of suggest_schedule_with_prep
SuggestScheduleWithPrep ==
    \E ord \in StartOrders(calendar), fail \in BOOLEAN, duration \in EventDurationChoices,
       prep_plan \in PrepPlanChoices, days_ahead \in DaysAheadChoices :
        /\ Idle
        /\ plan' =
             [called |-> TRUE, now |-> now, failed |-> fail,
              parsed_request |-> [duration_minutes |-> duration],
              prep_plan |-> prep_plan, days_ahead |-> days_ahead,
              result |-> suggest_schedule_with_prep(now, ord, fail,
                             [duration_minutes |-> duration], prep_plan, days_ahead)]
        /\ UNCHANGED <<now, calendar, nextId, search, created, zone, scan, monitor>>

NextPrep == Tick \/ AddEvent \/ SuggestScheduleWithPrep \/ Return

SpecPrep == Init /\ [][NextPrep]_vars

---------------------------------------------------------------------------
(* CalendarManager.create_event *)

DuplicateMarginMinutes == 1

\* str.lower on the titles in use
Lower(title) == IF title = "Interview" THEN "interview" ELSE title

EndsInPast(start_time, end_time, clock) == Before(end_time, DT(clock, 0))

\* start_time < now
StartsInPast(start_time, end_time, clock) == Before(start_time, DT(clock, 0))

\* the body of the try block for one existing event: the exception it raises,
\* "none" when it completes.  Events without dateTime strings are not examined.
DuplicateTry(event, title, start_time, end_time) ==
    IF /\ event.kind = "dateTime"
       /\ Lower(event.summary) = Lower(title)
       /\ Inst(start_time) < event.end
       /\ Inst(end_time) > event.start
    THEN "ValueError"
    ELSE "none"

\* except (ValueError, KeyError): continue
CaughtInLoop == {"ValueError", "KeyError"}

\* the duplicate loop: the exception that leaves it, "none" when it ends
DuplicateLoop(existing_events, title, start_time, end_time) ==
    IF \E i \in DOMAIN existing_events :
           LET raised == DuplicateTry(existing_events[i], title, start_time, end_time)
           IN  raised /= "none" /\ raised \notin CaughtInLoop
    THEN "ValueError"
    ELSE "none"

\* create_event: "ValueError" when it raises, "None" when the insert fails,
\* else "created" and the event put on the calendar
create_event(clock, ord, fetch_fails, insert_fails, id, title, start_time, end_time, check_duplicates, check_past) ==
    LET start == normalize_datetime(start_time)
        end == normalize_datetime(end_time)
        existing_events == get_events(ord, fetch_fails,
                               Plus(start, 0 - DuplicateMarginMinutes),
                               Plus(end, DuplicateMarginMinutes))
    IN  IF check_past /\ StartsInPast(start, end, clock)
        THEN [outcome |-> "ValueError", inserted |-> {}]
        ELSE IF check_duplicates
                /\ DuplicateLoop(existing_events, title, start, end) /= "none"
        THEN [outcome |-> "ValueError", inserted |-> {}]
        ELSE IF insert_fails THEN [outcome |-> "None", inserted |-> {}]
        ELSE [outcome |-> "created",
              inserted |-> {Event(<<"api", id, 0>>, title, "dateTime",
                                  Inst(start), Inst(end), start.off)}]

Titles == {"Interview", "interview"}
CreateMinutes == HourMinutes
CreateStarts == {Naive(At(Friday, 12, 30)), DT(At(Friday, 20, 0), 330)}

\* one call of create_event
CreateEvent ==
    \E ord \in StartOrders(calendar), fetch_fails \in BOOLEAN, insert_fails \in BOOLEAN,
       title \in Titles, start_time \in CreateStarts,
       check_duplicates \in BOOLEAN, check_past \in BOOLEAN :
        LET r == create_event(now, ord, fetch_fails, insert_fails, nextId, title,
                     start_time, Plus(start_time, CreateMinutes),
                     check_duplicates, check_past)
        IN  /\ Idle
            /\ nextId <= MaxCreated
            /\ calendar' = calendar \cup r.inserted
            /\ nextId' = IF r.inserted = {} THEN nextId ELSE nextId + 1
            /\ created' =
                 [called |-> TRUE, now |-> now, fetch_failed |-> fetch_fails,
                  title |-> title, start_time |-> start_time,
                  end_time |-> Plus(start_time, CreateMinutes),
                  check_duplicates |-> check_duplicates, check_past |-> check_past,
                  outcome |-> r.outcome, before |-> calendar]
            /\ UNCHANGED <<now, search, plan, zone, scan, monitor>>

NextCreate == Tick \/ CreateEvent \/ Return

SpecCreate == Init /\ [][NextCreate]_vars

---------------------------------------------------------------------------
(* ScheduleAgent.resolve_timezone *)

\* the keys ZoneInfo finds among the strings in use; it raises for any other
ZoneInfoKeys ==
    {"UTC", "Japan", "Asia/Kolkata", "Asia/Tokyo", "Europe/London", "America/New_York",
     "America/Los_Angeles"}

ZoneInfoAcceptsAll(key) == "none"

\* ZoneInfo(key): the exception it raises, "none" when it finds the zone
ZoneInfoRaises(key) ==
    IF key = "" THEN "ValueError"
    ELSE IF key \in ZoneInfoKeys THEN "none"
    ELSE "ZoneInfoNotFoundError"

\* str.upper, str.lower and str.strip on the strings in use
StrUpper(t) ==
    CASE t = "utc" -> "UTC"
      [] t = "Japan" -> "JAPAN"
      [] t = "japan" -> "JAPAN"
      [] t = "India" -> "INDIA"
      [] t = "ist" -> "IST"
      [] t = "Asia/Kolkata" -> "ASIA/KOLKATA"
      [] t = "Mars" -> "MARS"
      [] t = " UTC" -> " UTC"
      [] OTHER -> t
StrLowerKeepsCase(t) == t

StrLower(t) ==
    CASE t = "UTC" -> "utc"
      [] t = "Japan" -> "japan"
      [] t = "India" -> "india"
      [] t = "IST" -> "ist"
      [] t = "SF" -> "sf"
      [] t = "Asia/Kolkata" -> "asia/kolkata"
      [] t = "Mars" -> "mars"
      [] t = " UTC" -> " utc"
      [] OTHER -> t

StrStrip(t) ==
    CASE t = " Asia/Tokyo " -> "Asia/Tokyo"
      [] t = " " -> ""
      [] OTHER -> t

\* the alias table
aliases ==
    ("india" :> "Asia/Kolkata") @@ ("ist" :> "Asia/Kolkata") @@ ("japan" :> "Asia/Tokyo")
    @@ ("jst" :> "Asia/Tokyo") @@ ("uk" :> "Europe/London") @@ ("london" :> "Europe/London")
    @@ ("ny" :> "America/New_York") @@ ("nyc" :> "America/New_York")
    @@ ("sf" :> "America/Los_Angeles") @@ ("california" :> "America/Los_Angeles")

\* every exception of the model is a subclass of Exception
CaughtByException == {"ValueError", "ZoneInfoNotFoundError", "AttributeError", "APIError"}

\* the outer try block of the backend stage: the exception that leaves it
\* ("none" when it completes) and the value it returns ("" when it returns
\* nothing).  The inner try returns a reply that ZoneInfo accepts.
BackendTry(backend) ==
    IF backend.kind = "throws" THEN [raised |-> "APIError", value |-> ""]
    ELSE IF backend.kind = "no_content" THEN [raised |-> "AttributeError", value |-> ""]
    ELSE LET resolved == StrStrip(backend.content)
             inner == ZoneInfoRaises(resolved)
         IN  IF inner = "none" THEN [raised |-> "none", value |-> resolved]
             ELSE IF inner \in CaughtByException THEN [raised |-> "none", value |-> ""]
             ELSE [raised |-> inner, value |-> ""]

\* resolve_timezone: the string returned, whether the backend was consulted
\* and the exception that leaves the call ("none" when it returns)
resolve_timezone(timezone_input, backend) ==
    IF timezone_input = "" \/ StrUpper(timezone_input) = "UTC"
    THEN [result |-> "UTC", consulted |-> FALSE, raised |-> "none"]
    ELSE IF ZoneInfoRaises(timezone_input) = "none"
    THEN [result |-> timezone_input, consulted |-> FALSE, raised |-> "none"]
    ELSE IF ZoneInfoRaises(timezone_input) \notin CaughtByException
    THEN [result |-> "", consulted |-> FALSE, raised |-> ZoneInfoRaises(timezone_input)]
    ELSE IF StrLower(timezone_input) \in DOMAIN aliases
    THEN [result |-> aliases[StrLower(timezone_input)], consulted |-> FALSE,
          raised |-> "none"]
    ELSE IF backend.kind = "absent"
    THEN [result |-> "UTC", consulted |-> FALSE, raised |-> "none"]
    ELSE LET try == BackendTry(backend)
         IN  IF try.raised /= "none" /\ try.raised \notin CaughtByException
             THEN [result |-> "", consulted |-> TRUE, raised |-> try.raised]
             ELSE IF try.raised = "none" /\ try.value /= ""
             THEN [result |-> try.value, consulted |-> TRUE, raised |-> "none"]
             ELSE [result |-> "UTC", consulted |-> TRUE, raised |-> "none"]

TimezoneInputs ==
    {"", "UTC", "utc", " UTC", "Asia/Kolkata", "Japan", "japan", "India", "IST", "ist", "SF",
     "Tokyo", "Mars"}

\* the scheduler's chat client: missing, failing, answering without content
\* or answering with a text
BackendChoices ==
    {[kind |-> k, content |-> ""] : k \in {"absent", "throws", "no_content"}}
        \cup {[kind |-> "text", content |-> c] :
                 c \in {"Asia/Tokyo", " Asia/Tokyo ", "Tokyo Standard Time", " ", "UTC",
                        "Europe/London"}}

\* one call of resolve_timezone
ResolveTimezone ==
    \E timezone_input \in TimezoneInputs, backend \in BackendChoices :
        LET r == resolve_timezone(timezone_input, backend)
        IN  /\ Idle
            /\ zone' = [called |-> TRUE, timezone_input |-> timezone_input,
                        backend |-> backend, result |-> r.result,
                        consulted |-> r.consulted, raised |-> r.raised]
            /\ UNCHANGED <<now, calendar, nextId, search, plan, created, scan, monitor>>

NextZone == ResolveTimezone \/ Return

SpecZone == Init /\ [][NextZone]_vars

---------------------------------------------------------------------------
(* The scan loops, one iteration at a time *)

MaxIterations == 400

\* one iteration of the days_ahead loop: the value of current after it
RangeBody(current, p) ==
    IF SkipsDay(current, p) THEN NextDayAtNine(current)
    ELSE Plus(IF Hour(current) < WorkStartHour
              THEN ReplaceHM(current, WorkStartHour, 0) ELSE current, SlotStep)

\* one iteration of the loop of _find_prep_slot: current after it, and the
\* way the iteration leaves the loop ("" when it does not)
PrepBody(current, duration, busy) ==
    IF Weekday(current) >= 5 \/ Hour(current) >= WorkEndHour
    THEN [current |-> NextDayAtNine(current), leaves |-> ""]
    ELSE LET cur == IF Hour(current) < WorkStartHour
                    THEN ReplaceHM(current, WorkStartHour, 0) ELSE current
             slot_end == Plus(cur, duration)
         IN  IF CompareRaises(busy, cur, slot_end)
             THEN [current |-> cur, leaves |-> "TypeError"]
             ELSE IF FirstConflict(busy, cur, slot_end) = 0
             THEN [current |-> cur, leaves |-> "return"]
             ELSE [current |-> Plus(cur, SlotStep), leaves |-> ""]

\* the parameters a search scans with, as suggest_time_slots derives them
ScanParameters(clock, ord, fail, duration_minutes, start_date, days_ahead, timezone_str, excl, specific_dates) ==
    LET off == ZoneOffset(timezone_str)
        start == IF start_date = <<>>
                 THEN ReplaceHM(AsTimezone(DT(clock, 0), off), WorkStartHour, 0)
                 ELSE AsTimezone(normalize_datetime(start_date[1]), off)
        parsed == specific_dates /= <<>> /\ MinDate(specific_dates).ok
                    /\ MaxDate(specific_dates).ok
        end_date == IF parsed
                    THEN DT(MaxDate(specific_dates).d * DayMinutes + DayMinutes - 1, off)
                    ELSE Plus(start, days_ahead * DayMinutes)
        raw == get_busy_times(ord, fail, start, end_date)
    IN  [duration |-> duration_minutes, start_date |-> start, end_date |-> end_date,
         off |-> off, raw |-> raw,
         busy |-> SortByStart([i \in 1..Len(raw) |->
                     <<normalize_datetime(raw[i][1]), normalize_datetime(raw[i][2])>>]),
         excluded_dates |-> {excl[1][i] : i \in DOMAIN excl[1]},
         excluded_days |-> {excl[2][i] : i \in DOMAIN excl[2]}]

ScanStartChoices ==
    {<<>>, <<DT(At(Friday, 9, 0), 0)>>, <<Naive(At(Friday, 14, 10))>>,
     <<DT(At(Saturday, 23, 50), 0)>>}

\* suggest_time_slots enters the days_ahead loop: no dates were listed, or
\* the smallest or largest listed string did not parse
StartRangeScan ==
    \E ord \in StartOrders(calendar), start_date \in ScanStartChoices,
       days_ahead \in DaysAheadChoices \cup {14},
       timezone_str \in {"UTC", "Asia/Kolkata"},
       excl \in ExclusionChoices :
        LET p == ScanParameters(now, ord, FALSE, SlotStep, start_date, days_ahead,
                                timezone_str, excl, <<>>)
        IN  /\ Idle
            /\ scan' = [NoScan EXCEPT !.running = TRUE, !.kind = "range",
                                      !.loop = "range", !.p = p,
                                      !.first = p.start_date, !.current = p.start_date,
                                      !.end_date = p.end_date]
            /\ UNCHANGED <<now, calendar, nextId, search, plan, created, zone, monitor>>

\* while current < end_date: one iteration
RangeIterate ==
    /\ scan.running /\ scan.loop = "range"
    /\ Before(scan.current, scan.end_date)
    /\ scan.iterations < MaxIterations
    /\ scan' = [scan EXCEPT !.current = RangeBody(scan.current, scan.p),
                            !.iterations = @ + 1,
                            !.visited = IF SkipsDay(scan.current, scan.p) THEN @
                                        ELSE Append(@, Plus(RangeBody(scan.current, scan.p),
                                                            0 - SlotStep))]
    /\ UNCHANGED <<now, calendar, nextId, search, plan, created, zone, monitor>>

\* suggest_time_slots enters the loop over specific_dates
StartSpecificScan ==
    \E ord \in StartOrders(calendar), duration \in SearchDurations,
       start_date \in ScanStartChoices, timezone_str \in {"UTC", "Asia/Kolkata"},
       dates \in SpecificDateChoices :
        LET p == ScanParameters(now, ord, FALSE, duration, start_date, 14,
                                timezone_str, <<<<>>, <<>>>>, dates)
        IN  /\ Idle
            /\ MinDate(dates).ok /\ MaxDate(dates).ok
            /\ scan' = [NoScan EXCEPT !.running = TRUE, !.kind = "dates",
                                      !.loop = "dates", !.p = p,
                                      !.dates = dates]
            /\ UNCHANGED <<now, calendar, nextId, search, plan, created, zone, monitor>>

\* for date_str in specific_dates: the next string; one that does not parse
\* is skipped, another one sets current and day_end for the inner loop
NextDate ==
    /\ scan.running /\ scan.loop = "dates"
    /\ scan.dates /= <<>>
    /\ LET date == Head(scan.dates)
           nine == DT(date.d * DayMinutes + WorkStartHour * HourMinutes, scan.p.off)
           current == IF Before(nine, scan.p.start_date)
                      THEN RoundUp(scan.p.start_date) ELSE nine
           day_end == DT(date.d * DayMinutes + WorkEndHour * HourMinutes, scan.p.off)
       IN  scan' = IF ~date.ok THEN [scan EXCEPT !.dates = Tail(@)]
                   ELSE [scan EXCEPT !.dates = Tail(@), !.loop = "day", !.pass = @ + 1,
                                     !.first = current, !.current = current,
                                     !.end_date = day_end]
    /\ UNCHANGED <<now, calendar, nextId, search, plan, created, zone, monitor>>

\* while current < day_end: one iteration that does not break
DayIterate ==
    /\ scan.running /\ scan.loop = "day"
    /\ Before(scan.current, scan.end_date)
    /\ ~Before(scan.end_date, Plus(scan.current, scan.p.duration))
    /\ scan.iterations < MaxIterations
    /\ scan' = [scan EXCEPT !.current = Plus(@, SlotStep), !.iterations = @ + 1,
                            !.visited = Append(@, scan.current)]
    /\ UNCHANGED <<now, calendar, nextId, search, plan, created, zone, monitor>>

\* the inner loop ends, by its guard or by the break on slot_end > day_end
DayEnds ==
    /\ scan.running /\ scan.loop = "day"
    /\ \/ ~Before(scan.current, scan.end_date)
       \/ Before(scan.end_date, Plus(scan.current, scan.p.duration))
    /\ scan' = [scan EXCEPT !.loop = "dates"]
    /\ UNCHANGED <<now, calendar, nextId, search, plan, created, zone, monitor>>

PrepScanStarts == {DT(NowStart, 0), DT(At(Saturday, 23, 50), 0), Naive(At(Friday, 0, 0))}

\* _find_prep_slot enters its loop; sorting naive with aware busy times
\* raises before that
StartPrepScan ==
    \E ord \in StartOrders(calendar), start_date \in PrepScanStarts,
       days \in DaysAheadChoices, duration_minutes \in {HourMinutes, 2 * HourMinutes} :
        LET end_date == Plus(start_date, days * DayMinutes - PrepBufferMinutes)
            raw == get_busy_times(ord, FALSE, start_date, end_date)
        IN  /\ Idle
            /\ ~SortRaises(raw)
            /\ scan' = [NoScan EXCEPT !.running = TRUE, !.kind = "prep",
                                      !.loop = "prep",
                                      !.first = start_date, !.current = start_date,
                                      !.end_date = end_date,
                                      !.p.duration = duration_minutes,
                                      !.p.start_date = start_date,
                                      !.p.end_date = end_date,
                                      !.p.raw = raw,
                                      !.p.busy = SortByStart(raw)]
            /\ UNCHANGED <<now, calendar, nextId, search, plan, created, zone, monitor>>

\* while current < end_date: one iteration, which may return or raise
PrepIterate ==
    /\ scan.running /\ scan.loop = "prep"
    /\ Before(scan.current, scan.end_date)
    /\ scan.iterations < MaxIterations
    /\ LET body == PrepBody(scan.current, scan.p.duration, scan.p.busy)
       IN  scan' = IF body.leaves = ""
                   THEN [scan EXCEPT !.current = body.current, !.iterations = @ + 1]
                   ELSE [scan EXCEPT !.running = FALSE, !.loop = "done",
                                     !.iterations = @ + 1,
                                     !.outcome =
                                         IF body.leaves = "return"
                                         THEN <<body.current,
                                                Plus(body.current, scan.p.duration)>>
                                         ELSE <<"TypeError">>]
    /\ UNCHANGED <<now, calendar, nextId, search, plan, created, zone, monitor>>

\* the guard of the running loop fails: the scan is over
ScanEnds ==
    /\ scan.running
    /\ \/ scan.loop \in {"range", "prep"} /\ ~Before(scan.current, scan.end_date)
       \/ scan.loop = "dates" /\ scan.dates = <<>>
    /\ scan' = [scan EXCEPT !.running = FALSE, !.loop = "done"]
    /\ UNCHANGED <<now, calendar, nextId, search, plan, created, zone, monitor>>

ScanStep == RangeIterate \/ NextDate \/ DayIterate \/ DayEnds \/ PrepIterate \/ ScanEnds

\* what the calendar may hold while a scan is watched: <<start, minutes>>
ScanEvents == {<<At(Friday, 9, 0), 180>>, <<At(Monday, 9, 0), 30>>}

AddScanEvent ==
    /\ Idle
    /\ Cardinality(calendar) < MaxEvents
    /\ \E e \in ScanEvents \cup AllDayEvents :
         /\ \A c \in calendar : c.id /= <<"owner", e[1], e[2]>>
         /\ calendar' = calendar \cup
              {Event(<<"owner", e[1], e[2]>>, "Meeting",
                     IF e \in AllDayEvents THEN "date" ELSE "dateTime",
                     e[1], e[1] + e[2], 0)}
    /\ UNCHANGED <<now, nextId, search, plan, created, zone, scan, monitor>>

NextScan ==
    \/ AddScanEvent \/ Return
    \/ StartRangeScan \/ StartSpecificScan \/ StartPrepScan
    \/ RangeIterate \/ NextDate \/ DayIterate \/ DayEnds \/ PrepIterate \/ ScanEnds

\* a loop that has started keeps running: the program is sequential
SpecScan == Init /\ [][NextScan]_vars /\ WF_vars(ScanStep)

---------------------------------------------------------------------------
(* CalendarMonitor and the creation of prep events *)

MaxChecks == 2

\* the words of the titles in use, split at blanks
Words(title) ==
    CASE title = "Interview with Bob" -> <<"Interview", "with", "Bob">>
      [] title = "Interview" -> <<"Interview">>
      [] title = "interview" -> <<"interview">>
      [] title = "Meeting" -> <<"Meeting">>
      [] title = "Prep: Research - Interview with Bob"
           -> <<"Prep:", "Research", "-", "Interview", "with", "Bob">>
      [] title = "Prep: Research - Interview" -> <<"Prep:", "Research", "-", "Interview">>
      [] title = "Prep: Talking points - Interview with Bob"
           -> <<"Prep:", "Talking", "points", "-", "Interview", "with", "Bob">>
      [] title = "Prep: Talking points - Interview"
           -> <<"Prep:", "Talking", "points", "-", "Interview">>
      [] OTHER -> <<title>>

\* str.lower on one word
LowerWord(w) ==
    CASE w = "Interview" -> "interview"
      [] w = "Bob" -> "bob"
      [] w = "Meeting" -> "meeting"
      [] w = "Prep:" -> "prep:"
      [] w = "Research" -> "research"
      [] w = "Talking" -> "talking"
      [] OTHER -> w

LowerWords(text) == [i \in DOMAIN text |-> LowerWord(text[i])]

\* a in b, for texts that meet at word boundaries
Within(a, b) ==
    \E k \in 0..(Len(b) - Len(a)) : \A i \in 1..Len(a) : b[k + i] = a[i]

\* f"Prep: {task} - {event_name}"
PrepTitle(task, event_name) ==
    CASE task = "Research" /\ event_name = "Interview with Bob"
           -> "Prep: Research - Interview with Bob"
      [] task = "Research" /\ event_name = "Interview" -> "Prep: Research - Interview"
      [] task = "Talking points" /\ event_name = "Interview with Bob"
           -> "Prep: Talking points - Interview with Bob"
      [] OTHER -> "Prep: Talking points - Interview"

\* the calendar in one of the orders the backend may list it
ListOf(cal) == CHOOSE p \in StartOrders(cal) : TRUE

\* create_prep_events: one create_event (check_duplicates and check_past at
\* their default True) per prep item that has a slot; k counts the items,
\* insert_fails holds the items whose insert is refused.  A ValueError of
\* create_event leaves the loop; the events inserted before it stay.
RECURSIVE create_prep_events(_, _, _, _, _, _, _, _)
create_prep_events(prep_slots, event_name, clock, cal, id, fetch_fails, insert_fails, k) ==
    IF prep_slots = <<>>
    THEN [raised |-> "none", created_events |-> <<>>, inserted |-> {}]
    ELSE LET prep_item == Head(prep_slots)
             One(r) ==
                 IF r.outcome = "ValueError"
                 THEN [raised |-> "ValueError", created_events |-> <<>>, inserted |-> {}]
                 ELSE LET rest == create_prep_events(Tail(prep_slots), event_name, clock,
                                      cal \cup r.inserted, id + Cardinality(r.inserted),
                                      fetch_fails, insert_fails, k + 1)
                      IN  [raised |-> rest.raised,
                           created_events |->
                               (IF r.outcome = "created" THEN <<id>> ELSE <<>>)
                                   \o rest.created_events,
                           inserted |-> r.inserted \cup rest.inserted]
         IN  IF prep_item.slot = <<>>
             THEN create_prep_events(Tail(prep_slots), event_name, clock, cal, id,
                                     fetch_fails, insert_fails, k + 1)
             ELSE Once(create_event(clock, ListOf(cal), fetch_fails, k \in insert_fails, id,
                           PrepTitle(prep_item.task.task, event_name),
                           prep_item.slot[1], prep_item.slot[2], TRUE, TRUE),
                       One)

\* event_description as parse_request returns it for an interview
EventNames == {"Interview with Bob", "Interview"}

\* prep plans of plan_preparation for an interview
InterviewPlans ==
    {[total_prep_hours |-> 1, prep_tasks |-> <<PrepTask("Research", 1)>>],
     [total_prep_hours |-> 2,
      prep_tasks |-> <<PrepTask("Research", 1), PrepTask("Talking points", 1)>>]}

\* the items of a plan whose insert the backend refuses
InsertFailures == {{}, {1}}

\* what the owner asks the agent for and which suggestion they then choose
AgentDaysAhead == {3}
AgentChoices == {1}

\* ScheduleAgent.schedule_intelligent with the owner answering yes and
\* choosing one suggestion: create_prep_events for that suggestion
AgentCreatesPrep ==
    /\ Idle
    /\ \E ord \in StartOrders(calendar), fail \in BOOLEAN, prep_plan \in InterviewPlans,
          days_ahead \in AgentDaysAhead :
         \E result \in {suggest_schedule_with_prep(now, ord, fail,
                             [duration_minutes |-> SlotStep], prep_plan, days_ahead)} :
             /\ ~result.raised
             /\ \E choice \in DOMAIN result.suggestions \cap AgentChoices,
                   event_name \in EventNames :
                  \E r \in {create_prep_events(result.suggestions[choice].prep_slots,
                                 event_name, now, calendar, nextId, fail, {}, 1)} :
                      /\ nextId + Cardinality(r.inserted) <= MaxCreated
                      /\ calendar' = calendar \cup r.inserted
                      /\ nextId' = nextId + Cardinality(r.inserted)
    /\ UNCHANGED <<now, search, plan, created, zone, scan, monitor>>

\* prep_keywords, the lists of all categories; events().list is called with
\* singleEvents=True, so no listed event has a 'recurrence' key and the
\* category of a keyword makes no difference
prep_keywords ==
    {<<"interview">>, <<"interviews">>, <<"interviewing">>,
     <<"tournament">>, <<"tournaments">>, <<"competition">>, <<"competitions">>,
     <<"contest">>, <<"contests">>,
     <<"presentation">>, <<"presentations">>, <<"presenting">>, <<"demo">>, <<"demos">>,
     <<"meeting", "with">>, <<"meeting", "at">>, <<"call", "with">>,
     <<"event">>, <<"events">>, <<"conference">>, <<"conferences">>}

\* _needs_prep; the description of an event is empty or, for a prep event,
\* repeats the event name of its title
needs_prep(event) ==
    LET summary == LowerWords(Words(event.summary))
    IN  IF Within(<<"[PREP_PLANNED]">>, summary) THEN FALSE
        ELSE \E keyword \in prep_keywords : Within(keyword, summary)

\* datetime.fromisoformat of the start or end string of an event
FromIso(event, v) == IF event.kind = "dateTime" THEN DT(v + event.off, event.off) ELSE Naive(v)

\* _extract_event_info
extract_event_info(event) ==
    [event_id |-> event.id, summary |-> event.summary,
     start_time |-> FromIso(event, event.start), end_time |-> FromIso(event, event.end),
     duration_minutes |-> event.end - event.start, request |-> event.summary]

HasExistingAlways(event_info, ord, fail) == TRUE

\* _has_existing_prep_events
has_existing_prep_events(event_info, ord, fail) ==
    LET search_start == Plus(event_info.start_time, 0 - PrepLookbackDays * DayMinutes)
        search_end == Plus(event_info.start_time, 0 - HourMinutes)
        events == get_events(ord, fail, search_start, search_end)
    IN  \E i \in DOMAIN events :
            /\ Within(<<"Prep:">>, Words(events[i].summary))
            /\ Within(LowerWords(Words(event_info.summary)),
                      LowerWords(Words(events[i].summary)))

NeverProcessed(event_id, processed_events) == FALSE

\* event_id in self.processed_events
AlreadyProcessed(event_id, processed_events) == event_id \in processed_events

\* the parameters schedule_intelligent can be called with by keyword
ScheduleIntelligentParameters == {"request", "days_ahead", "auto_create_prep"}

\* a call with a keyword the function does not have raises TypeError
KeywordsRaise(keywords) ==
    IF keywords \subseteq ScheduleIntelligentParameters THEN "none" ELSE "TypeError"

MaxLookAhead == 14

\* _process_event_for_prep: the exception that leaves it ("none" when it
\* returns), whether it returns a dict, and the events it put on the calendar.
\* datetime.now() is naive, so the subtraction raises for an aware start; the
\* call of schedule_intelligent names a keyword the function does not have.
process_event_for_prep(event_info, auto_create, clock, cal, id, fail, insert_fails, event_name, prep_plan) ==
    LET event_start == event_info.start_time
        None == [raised |-> "none", result |-> FALSE, inserted |-> {}]
        Raised(e, ins) == [raised |-> e, result |-> FALSE, inserted |-> ins]
        days_until_event == (event_start.wall - clock) \div DayMinutes
        days_ahead == IF days_until_event + 1 < MaxLookAhead
                      THEN days_until_event + 1 ELSE MaxLookAhead
        prep_start_date == Plus(event_start, 0 - PrepLookbackDays * DayMinutes)
        prep_end_date == Plus(event_start, 0 - DayMinutes)
        Create(prep_slots) ==
            IF \E j \in DOMAIN prep_slots : Len(prep_slots[j].slot) = 1
            THEN Raised("TypeError", {})
            ELSE IF ~auto_create THEN [raised |-> "none", result |-> TRUE, inserted |-> {}]
            ELSE LET c == create_prep_events(prep_slots, event_name, clock, cal, id,
                              fail, insert_fails, 1)
                 IN  IF c.raised /= "none" THEN Raised(c.raised, c.inserted)
                     ELSE [raised |-> "none", result |-> c.created_events /= <<>>,
                           inserted |-> c.inserted]
    IN  IF event_start.aware THEN Raised("TypeError", {})
        ELSE IF days_until_event < 0 THEN None
        ELSE IF KeywordsRaise({"auto_create"}) /= "none"
        THEN Raised(KeywordsRaise({"auto_create"}), {})
        ELSE IF suggest_schedule_with_prep(clock, ListOf(cal), fail,
                    [duration_minutes |-> SlotStep], prep_plan, days_ahead).raised
        THEN Raised("TypeError", {})
        ELSE IF prep_plan.prep_tasks = <<>> THEN None
        ELSE Once(PrepForTasks(prep_plan.prep_tasks, prep_start_date, prep_start_date,
                               prep_end_date, ListOf(cal), fail),
                  Create)

\* the loop of check_new_events over new_events_needing_prep: the ids
\* marked as processed, the ids whose processing raised, the events put on
\* the calendar and the ids they were made for
RECURSIVE ProcessAll(_, _, _, _, _, _, _, _, _)
ProcessAll(infos, auto_create, clock, cal, id, fail, insert_fails, event_name, prep_plan) ==
    IF infos = <<>> THEN [marked |-> {}, errors |-> {}, inserted |-> {}, made_for |-> {}]
    ELSE LET event_info == Head(infos)
             One(r) ==
                 LET rest == ProcessAll(Tail(infos), auto_create, clock,
                                 cal \cup r.inserted, id + Cardinality(r.inserted),
                                 fail, insert_fails, event_name, prep_plan)
                 IN  [marked |-> rest.marked \cup
                          (IF r.raised = "none" /\ r.result
                           THEN {event_info.event_id} ELSE {}),
                      errors |-> rest.errors \cup
                          (IF r.raised /= "none" THEN {event_info.event_id} ELSE {}),
                      inserted |-> rest.inserted \cup r.inserted,
                      made_for |-> rest.made_for \cup
                          (IF r.inserted /= {} THEN {event_info.event_id} ELSE {})]
         IN  Once(process_event_for_prep(event_info, auto_create, clock, cal, id, fail,
                      insert_fails, event_name, prep_plan),
                  One)

\* check_new_events; datetime.now() is naive and the machine keeps UTC
check_new_events(clock, cal, ord, fail, id, processed_events, days_ahead, auto_create, insert_fails, event_name, prep_plan) ==
    LET start_time == Naive(clock)
        end_time == Plus(start_time, days_ahead * DayMinutes)
        events == get_events(ord, fail, start_time, end_time)
        Unprocessed(e) == ~AlreadyProcessed(e.id, processed_events)
        Candidate(e) == Unprocessed(e) /\ needs_prep(e)
        Existing(e) == Candidate(e) /\ has_existing_prep_events(extract_event_info(e), ord, fail)
        New(e) == Candidate(e) /\ ~Existing(e)
        fresh == SelectSeq(events, New)
        new_events_needing_prep == [i \in DOMAIN fresh |-> extract_event_info(fresh[i])]
        detected == {events[i].id : i \in {j \in DOMAIN events : Existing(events[j])}}
        Finish(p) ==
            [fetched |-> {events[i].id : i \in DOMAIN events},
             detected |-> detected,
             attempted |-> {fresh[i].id : i \in DOMAIN fresh},
             processed |-> p.marked,
             errors |-> p.errors,
             inserted |-> p.inserted,
             made_for |-> p.made_for,
             processed_events |-> processed_events \cup detected \cup p.marked]
    IN  Once(ProcessAll(new_events_needing_prep, auto_create, clock, cal, id, fail,
                        insert_fails, event_name, prep_plan),
             Finish)

\* events of the owner for the monitor: <<title, kind, start, minutes>>
MonitorEvents ==
    {<<"Interview with Bob", "dateTime", At(Monday, 9, 0), HourMinutes>>,
     <<"Interview with Bob", "date", At(Monday, 0, 0), DayMinutes>>,
     <<"Meeting", "dateTime", At(Friday, 13, 0), SlotStep>>}

AddMonitorEvent ==
    /\ Idle
    /\ Cardinality({c \in calendar : c.id[1] = "owner"}) < MaxEvents
    /\ \E e \in MonitorEvents :
         /\ \A c \in calendar : c.id /= <<"owner", e[3], e[4]>>
         /\ calendar' = calendar \cup
              {Event(<<"owner", e[3], e[4]>>, e[1], e[2], e[3], e[3] + e[4], 0)}
    /\ UNCHANGED <<now, nextId, search, plan, created, zone, scan, monitor>>

CheckDays == {30, 1}

\* one call of check_new_events
CheckNewEvents ==
    /\ Idle
    /\ monitor.checks < MaxChecks
    /\ \E ord \in StartOrders(calendar), fail \in BOOLEAN, days_ahead \in CheckDays,
          auto_create \in BOOLEAN, insert_fails \in InsertFailures,
          event_name \in EventNames, prep_plan \in InterviewPlans :
         \E r \in {check_new_events(now, calendar, ord, fail, nextId,
                        monitor.processed_events, days_ahead, auto_create, insert_fails,
                        event_name, prep_plan)} :
             /\ nextId + Cardinality(r.inserted) <= MaxCreated
             /\ calendar' = calendar \cup r.inserted
             /\ nextId' = nextId + Cardinality(r.inserted)
             /\ monitor' =
                  [called |-> TRUE, processed_events |-> r.processed_events,
                   checks |-> monitor.checks + 1,
                   creations |-> monitor.creations \cup
                                     {<<e, monitor.checks + 1>> : e \in r.made_for},
                   auto_create |-> auto_create, before |-> monitor.processed_events,
                   fetched |-> r.fetched, detected |-> r.detected,
                   attempted |-> r.attempted, processed |-> r.processed,
                   errors |-> r.errors]
    /\ UNCHANGED <<now, search, plan, created, zone, scan>>

NextMonitor == Tick \/ AddMonitorEvent \/ AgentCreatesPrep \/ CheckNewEvents \/ Return

SpecMonitor == Init /\ [][NextMonitor]_vars

---------------------------------------------------------------------------
(* Properties of suggest_time_slots *)

Returned == search.called
Available == search.result.available
ConflictPossible == search.result.conflict_possible
FetchedBusy == search.result.busy_times
SeqRange(s) == {s[i] : i \in DOMAIN s}

\* target slots of both returned lists
ReturnedSlots ==
    {a.target_slot : a \in SeqRange(Available)}
        \cup {c.slot.target_slot : c \in SeqRange(ConflictPossible)}

\* [s, e) overlaps busy [bs, be) iff s < be and e > bs
SlotOverlapsBusy(slot, b) == Inst(slot[1]) < Inst(b[2]) /\ Inst(slot[2]) > Inst(b[1])

\* C1: every slot of the returned 'available' list overlaps none of the busy
\* intervals fetched for that search, in range mode and in specific_dates mode.
C1_AvailableOverlapsNoBusy ==
    Returned =>
        \A a \in SeqRange(Available) : \A b \in SeqRange(FetchedBusy) :
            ~SlotOverlapsBusy(a.target_slot, b)

\* a search in which busy intervals took candidates away and free ones remain
C1_Witness ==
    /\ Returned
    /\ FetchedBusy /= <<>>
    /\ Available /= <<>>
    /\ ConflictPossible /= <<>>

\* C2: no returned slot (available or conflict_possible) overlaps a busy
\* interval of 2 hours or more.
C2_NoSlotOverlapsLongBusy ==
    Returned =>
        \A slot \in ReturnedSlots : \A b \in SeqRange(FetchedBusy) :
            Inst(b[2]) - Inst(b[1]) >= MovableMinutes => ~SlotOverlapsBusy(slot, b)

C4_NoSlotOnExcludedDay ==
    Returned =>
        \A slot \in ReturnedSlots :
            /\ Weekday(slot[1]) < 5
            /\ Weekday(slot[1]) \notin SeqRange(search.excluded_days)
            /\ strftime_date(slot[1]) \notin SeqRange(search.excluded_dates)

\* C5: every returned slot starts at or after max(window_start, now), where
\* window_start is the supplied start_date, or now when it is omitted.
C5_NoSlotInThePast ==
    Returned =>
        LET window_start == IF search.start_given = <<>> THEN search.now
                            ELSE Inst(normalize_datetime(search.start_given[1]))
            earliest == IF window_start > search.now THEN window_start ELSE search.now
        IN  \A slot \in ReturnedSlots : Inst(slot[1]) >= earliest

\* C10: when the backend fails during the search, no slots are returned as
\* if the calendar were empty.
C10_FetchFailureNotTreatedAsEmpty ==
    (Returned /\ search.failed /\ calendar /= {}) =>
        (Available = <<>> /\ ConflictPossible = <<>>)

\* the days named by the well-formed entries of specific_dates
ListedDays == {x.d : x \in {y \in SeqRange(search.specific_dates) : y.ok}}

\* C11: when specific_dates holds well-formed and malformed strings, the
\* malformed ones are skipped and every returned slot starts on a day named
\* by a well-formed entry.
C11_MalformedDateOnlySkipped ==
    (Returned /\ ListedDays /= {}) =>
        \A slot \in ReturnedSlots : DayIndex(slot[1]) \in ListedDays

\* C12: when specific_dates is non-empty the days_ahead iteration is not
\* used: every returned slot starts within [09:00, 18:00) (target zone) of a
\* listed date.
C12_SpecificDatesOverrideWindow ==
    (Returned /\ search.specific_dates /= <<>>) =>
        \A slot \in ReturnedSlots :
            /\ DayIndex(slot[1]) \in ListedDays
            /\ slot[1].off = ZoneOffset(search.timezone_str)
            /\ WorkStartHour <= Hour(slot[1])
            /\ Hour(slot[1]) < WorkEndHour

\* the starts of a list of target slots ascend strictly
StrictlyChronological(slots) ==
    \A i \in 1..(Len(slots) - 1) : Inst(slots[i][1]) < Inst(slots[i + 1][1])

\* C13: the returned 'available' list and the returned 'conflict_possible'
\* list are each strictly chronological by slot start, in both modes and for
\* any order of the listed dates.
C13_ListsStrictlyChronological ==
    Returned =>
        /\ StrictlyChronological([i \in DOMAIN Available |-> Available[i].target_slot])
        /\ StrictlyChronological(
               [i \in DOMAIN ConflictPossible |-> ConflictPossible[i].slot.target_slot])

\* C14: every returned slot (available or conflict_possible) starts at a
\* target-zone time of day within [09:00, 18:00) and its end minus its start
\* is exactly the requested duration.
C14_StartInWorkingHoursExactDuration ==
    Returned =>
        \A slot \in ReturnedSlots :
            /\ slot[1].off = ZoneOffset(search.timezone_str)
            /\ WorkStartHour <= Hour(slot[1])
            /\ Hour(slot[1]) < WorkEndHour
            /\ slot[2].off = slot[1].off
            /\ slot[2].wall - slot[1].wall = search.duration

\* a one-hour search from a start off the half-hour grid returned the last
\* candidate of the day (17:40) and a conflict record
C14_Witness ==
    /\ Returned
    /\ search.duration = 2 * SlotStep
    /\ \E a \in SeqRange(Available) :
          Hour(a.target_slot[1]) = WorkEndHour - 1 /\ Minute(a.target_slot[1]) = 40
    /\ ConflictPossible /= <<>>

\* C15: every record of 'conflict_possible' carries a fetched busy interval
\* that overlaps the record's slot and lasts less than 2 hours, with the note
\* 'Short event - might be movable'; no slot is in both returned lists.
C15_ConflictRecordsAreShortOverlaps ==
    Returned =>
        /\ \A c \in SeqRange(ConflictPossible) :
              /\ c.conflict_with \in SeqRange(FetchedBusy)
              /\ SlotOverlapsBusy(c.slot.target_slot, c.conflict_with)
              /\ Inst(c.conflict_with[2]) - Inst(c.conflict_with[1]) < MovableMinutes
              /\ c.note = "Short event - might be movable"
        /\ \A a \in SeqRange(Available) : \A c \in SeqRange(ConflictPossible) :
              a.target_slot /= c.slot.target_slot

\* a search against a short and a long busy interval that returned conflict
\* records and available slots
C15_Witness ==
    /\ Returned
    /\ ConflictPossible /= <<>>
    /\ Available /= <<>>
    /\ \E b \in SeqRange(FetchedBusy) : Inst(b[2]) - Inst(b[1]) >= MovableMinutes
    /\ \E b \in SeqRange(FetchedBusy) : Inst(b[2]) - Inst(b[1]) < MovableMinutes

\* returned is the first (at most n) elements of produced
PrefixUpTo(returned, produced, n) ==
    /\ Len(returned) = (IF Len(produced) < n THEN Len(produced) ELSE n)
    /\ \A i \in DOMAIN returned : returned[i] = produced[i]

\* C16: at most 10 available slots, 5 conflict records and 3 conflict
\* resolutions are returned, and each returned list is the earliest-found
\* prefix of what the scan produced.
C16_CapsKeepEarliestFound ==
    Returned =>
        /\ Len(Available) <= MaxAvailable
        /\ Len(ConflictPossible) <= MaxConflicts
        /\ Len(search.result.conflict_resolutions) <= MaxResolutions
        /\ PrefixUpTo(Available, search.result.available_slots, MaxAvailable)
        /\ PrefixUpTo(ConflictPossible, search.result.conflict_slots, MaxConflicts)
        /\ PrefixUpTo(search.result.conflict_resolutions, search.result.all_resolutions,
                      MaxResolutions)

\* a search whose scan produced more of each kind than is returned
C16_Witness ==
    /\ Returned
    /\ Len(search.result.available_slots) > MaxAvailable
    /\ Len(search.result.conflict_slots) > MaxConflicts
    /\ Len(search.result.all_resolutions) > MaxResolutions

\* the search iterated over the window: no dates were listed, or the listed
\* dates were dropped
WindowMode ==
    \/ search.specific_dates = <<>>
    \/ ~MinDate(search.specific_dates).ok
    \/ ~MaxDate(search.specific_dates).ok

\* the window of the search, from its arguments
WindowStart ==
    IF search.start_given = <<>>
    THEN ReplaceHM(AsTimezone(DT(search.now, 0), ZoneOffset(search.timezone_str)),
                   WorkStartHour, 0)
    ELSE AsTimezone(normalize_datetime(search.start_given[1]),
                    ZoneOffset(search.timezone_str))
WindowEnd == Plus(WindowStart, search.days_ahead * DayMinutes)

\* the candidate starts of the window: every 30 minutes from window_start on
\* its day (from 09:00 when it lies before 09:00) and from 09:00 on each
\* later day, on allowed days, at hours within [09:00, 18:00)
WindowCandidates ==
    LET first == DayIndex(WindowStart)
        anchor(d) == IF d = first /\ Hour(WindowStart) >= WorkStartHour
                     THEN WindowStart
                     ELSE DT(d * DayMinutes + WorkStartHour * HourMinutes, WindowStart.off)
        grid == {Plus(anchor(d), k * SlotStep) :
                    d \in first..DayIndex(WindowEnd), k \in 0..(StepsPerDay - 1)}
    IN  {t \in grid :
            /\ DayIndex(t) \in first..DayIndex(WindowEnd)
            /\ Before(t, WindowEnd)
            /\ Weekday(t) < 5
            /\ Weekday(t) \notin SeqRange(search.excluded_days)
            /\ strftime_date(t) \notin SeqRange(search.excluded_dates)
            /\ WorkStartHour <= Hour(t)
            /\ Hour(t) < WorkEndHour}

\* the candidates that overlap no fetched busy interval
FreeCandidates ==
    {t \in WindowCandidates :
        \A b \in SeqRange(FetchedBusy) :
            ~SlotOverlapsBusy(<<t, Plus(t, search.duration)>>, b)}

\* C17: in range mode the 'available' list is exactly the first (up to 10)
\* candidates, in scan order, among the 30-minute-step candidates from
\* window_start that fall on an allowed day and hour and overlap no busy
\* interval; so the first free candidate comes first and no weekend slot is
\* returned.
C17_RangeModeComplete ==
    (Returned /\ WindowMode) =>
        LET starts == [i \in DOMAIN Available |-> Available[i].target_slot[1]]
            free == FreeCandidates
            count == Cardinality(free)
        IN  /\ Len(starts) = (IF count < MaxAvailable THEN count ELSE MaxAvailable)
            /\ \A i \in DOMAIN starts : starts[i] \in free
            /\ \A i \in 1..(Len(starts) - 1) : Before(starts[i], starts[i + 1])
            /\ \A t \in free :
                  t \in SeqRange(starts) \/ \A i \in DOMAIN starts : Before(starts[i], t)

\* a one-hour window search without exclusions that returned 10 slots, the
\* first at window_start on a Friday, the last on the Monday after the weekend
C17_Witness ==
    /\ Returned
    /\ search.specific_dates = <<>>
    /\ search.duration = 2 * SlotStep
    /\ search.excluded_days = <<>>
    /\ Len(Available) = MaxAvailable
    /\ Available[1].target_slot[1] = WindowStart
    /\ Weekday(Available[1].target_slot[1]) = 4
    /\ Weekday(Available[MaxAvailable].target_slot[1]) = 0

\* the all-day events of the calendar that the search fetched
FetchedAllDay ==
    {e \in calendar :
        e.kind = "date" /\ <<DT(e.start, 0), DT(e.end, 0)>> \in SeqRange(FetchedBusy)}

\* C18: an all-day event on date D blocks that entire day: for every target
\* zone, no available slot starts on date D of the target zone.
C18_AllDayEventBlocksItsDay ==
    Returned =>
        \A e \in FetchedAllDay : \A a \in SeqRange(Available) :
            DayIndex(a.target_slot[1]) /= e.start \div DayMinutes

---------------------------------------------------------------------------
(* Properties of suggest_schedule_with_prep *)

Planned == plan.called /\ ~plan.result.raised
Suggestions == plan.result.suggestions
FirstOrAll(n, m) == IF n < m THEN n ELSE m

C7_PrepEndsBeforeEventStarts ==
    Planned =>
        \A s \in SeqRange(Suggestions) : \A e \in SeqRange(s.prep_slots) :
            e.slot /= <<>> => Inst(e.slot[2]) <= Inst(s.event_slot[1])

\* the lead of one prep task in minutes: max(1, duration_hours / 2) days
TaskLeadMinutes(task) ==
    IF task.duration_hours * (DayMinutes \div 2) > DayMinutes
    THEN task.duration_hours * (DayMinutes \div 2)
    ELSE DayMinutes

RECURSIVE SumTaskLeads(_)
SumTaskLeads(tasks) ==
    IF tasks = <<>> THEN 0 ELSE TaskLeadMinutes(Head(tasks)) + SumTaskLeads(Tail(tasks))

\* every event slot of a suggestion starts at or after the instant
EventSlotsNotBefore(instant) ==
    \A s \in SeqRange(Suggestions) : Inst(s.event_slot[1]) >= instant

\* C19 as stated: the search for the event starts at now + delay, where delay
\* adds max(1, duration_hours / 2) days for each prep task (the request
\* carries no lead of its own), and no event slot of a suggestion starts
\* before that instant.
C19_LeadIsSumOverPrepTasks ==
    Planned =>
        LET instant == plan.now + SumTaskLeads(plan.prep_plan.prep_tasks)
        IN  /\ Inst(plan.result.search_start_date) = instant
            /\ EventSlotsNotBefore(instant)

\* C19 (amended): the search for the event starts at now + min_lead_days
\* days, where min_lead_days is 0 when total_prep_hours is 0 and otherwise
\* max(2, floor(total_prep_hours / 2)); no event slot of a suggestion starts
\* before that instant.
C19_LeadFromTotalPrepHours ==
    Planned =>
        LET total == plan.prep_plan.total_prep_hours
            days == IF total = 0 THEN 0
                    ELSE IF total \div 2 > 2 THEN total \div 2 ELSE 2
            instant == plan.now + days * DayMinutes
        IN  /\ Inst(plan.result.search_start_date) = instant
            /\ EventSlotsNotBefore(instant)

\* suggestions were made for a plan whose prep hours ask for more than the
\* minimum lead
C19_Witness ==
    /\ Planned
    /\ plan.prep_plan.total_prep_hours \div 2 > MinLeadDays
    /\ Suggestions /= <<>>

---------------------------------------------------------------------------
(* Properties of create_event *)

\* the calendar held, when create_event was called, an event of the same
\* title (case-insensitive) whose time range overlaps the requested one
HeldDuplicate ==
    \E e \in created.before :
        /\ e.kind = "dateTime"
        /\ Lower(e.summary) = Lower(created.title)
        /\ Inst(normalize_datetime(created.start_time)) < e.end
        /\ Inst(normalize_datetime(created.end_time)) > e.start

\* C8: with check_duplicates, a request that duplicates an event on the
\* calendar raises ValueError and inserts nothing (here even when the lookup
\* of the existing events succeeded).
C8_DuplicateRaisesAndInsertsNothing ==
    (created.called /\ created.check_duplicates /\ ~created.fetch_failed
        /\ HeldDuplicate) =>
        (created.outcome = "ValueError" /\ calendar = created.before)

\* C9: with check_past, a start_time earlier than now (a naive value read
\* as UTC) raises ValueError and leaves the calendar unchanged.
C9_PastStartRaisesAndInsertsNothing ==
    (created.called /\ created.check_past
        /\ Inst(normalize_datetime(created.start_time)) < created.now) =>
        (created.outcome = "ValueError" /\ calendar = created.before)

\* a naive start in the past was refused although the event ends in the future
C9_Witness ==
    /\ created.called
    /\ created.check_past
    /\ ~created.start_time.aware
    /\ created.start_time.wall < created.now
    /\ created.end_time.wall > created.now
    /\ created.outcome = "ValueError"

---------------------------------------------------------------------------
(* Properties of resolve_timezone *)

\* the IANA identifiers among the strings in use
ValidZoneIds ==
    {"UTC", "Japan", "Asia/Kolkata", "Asia/Tokyo", "Europe/London", "America/New_York",
     "America/Los_Angeles"}

\* C20: resolve_timezone never raises and returns a valid zone identifier
\* (at worst the fallback 'UTC') for every input and every backend behaviour;
\* a backend answer is returned only if it is itself a valid zone identifier.
C20_AlwaysAValidZone ==
    zone.called =>
        /\ zone.raised = "none"
        /\ zone.result \in ValidZoneIds
        /\ zone.consulted =>
              \/ zone.result = "UTC"
              \/ /\ zone.backend.kind = "text"
                 /\ zone.result = StrStrip(zone.backend.content)
                 /\ zone.result \in ValidZoneIds

\* an input that is neither a zone nor an alias was given to a backend that
\* answered with text that is no zone, and the fallback was returned
C20_Witness ==
    /\ zone.called
    /\ zone.timezone_input = "Mars"
    /\ zone.consulted
    /\ zone.backend.kind = "text"
    /\ StrStrip(zone.backend.content) \notin ValidZoneIds
    /\ zone.result = "UTC"

---------------------------------------------------------------------------
(* Stage order of resolve_timezone *)

\* spellings of UTC and of alias keys among the inputs, with their targets
UtcSpellings == {"UTC", "utc"}
AliasSpellings ==
    ("japan" :> "Asia/Tokyo") @@ ("India" :> "Asia/Kolkata") @@ ("IST" :> "Asia/Kolkata")
    @@ ("ist" :> "Asia/Kolkata") @@ ("SF" :> "America/Los_Angeles")

\* C21: resolve_timezone applies its stages in a fixed order: empty input or
\* any spelling of UTC yields 'UTC'; otherwise an input that is a valid zone
\* identifier is returned unchanged, even when its lowercase form is an alias
\* key; otherwise an alias key in any case yields the alias target; only
\* when none of these applies is the backend consulted.
C21_StagesInFixedOrder ==
    zone.called =>
        LET t == zone.timezone_input
        IN  /\ (t = "" \/ t \in UtcSpellings) =>
                  zone.result = "UTC" /\ ~zone.consulted
            /\ (t /= "" /\ t \notin UtcSpellings /\ t \in ValidZoneIds) =>
                  zone.result = t /\ ~zone.consulted
            /\ (t \notin ValidZoneIds /\ t \in DOMAIN AliasSpellings) =>
                  zone.result = AliasSpellings[t] /\ ~zone.consulted
            /\ zone.consulted <=>
                  /\ t /= ""
                  /\ t \notin UtcSpellings \cup ValidZoneIds \cup DOMAIN AliasSpellings
                  /\ zone.backend.kind /= "absent"

\* 'Japan' is a zone identifier whose lowercase form is an alias key for
\* another zone: it was returned unchanged although a backend was at hand
C21_Witness ==
    /\ zone.called
    /\ zone.timezone_input = "Japan"
    /\ zone.backend.kind = "text"
    /\ zone.result = "Japan"
    /\ ~zone.consulted

---------------------------------------------------------------------------
(* The reasonableness flag *)

\* every slot dictionary of the three returned lists
ReturnedDicts ==
    SeqRange(Available) \cup {c.slot : c \in SeqRange(ConflictPossible)}

\* hour of the day, in the viewer zone, at which a target slot starts
ViewerHour(slot) ==
    ((Inst(slot[1]) + ZoneOffset(search.user_timezone)) % DayMinutes) \div HourMinutes

\* C22: for every returned slot, is_reasonable is true exactly when the
\* slot's start, converted to the viewer zone, has its hour in [7,22); the
\* flag is advisory: slots flagged false stay in the list at the position the
\* scan gave them (in a window search the list ascends and every 30-minute
\* step of a day that lies between two returned slots, or after a returned
\* slot that is not the last, overlaps a busy interval, whatever its flag).
C22_ReasonableFlagIsAdvisory ==
    Returned =>
        /\ \A d \in ReturnedDicts :
              d.is_reasonable <=> (7 <= ViewerHour(d.target_slot) /\ ViewerHour(d.target_slot) < 22)
        /\ \A d \in ReturnedDicts :
              /\ Inst(d.user_slot[1]) = Inst(d.target_slot[1])
              /\ d.user_slot[1].off = ZoneOffset(search.user_timezone)
        /\ WindowMode =>
              \A i \in 1..(Len(Available) - 1) :
                  LET here == Available[i].target_slot[1]
                      next == Available[i + 1].target_slot[1]
                      gap == (Inst(next) - Inst(here)) \div SlotStep
                      last == IF gap < StepsPerDay THEN gap - 1 ELSE StepsPerDay
                  IN  /\ Before(here, next)
                      /\ \A k \in 1..last :
                            LET t == Plus(here, k * SlotStep)
                            IN  (DayIndex(t) = DayIndex(here) /\ Hour(t) < WorkEndHour) =>
                                    \E b \in SeqRange(FetchedBusy) :
                                        SlotOverlapsBusy(<<t, Plus(t, search.duration)>>, b)

\* a window search whose available list holds a slot flagged false ahead of
\* a slot flagged true
C22_Witness ==
    /\ Returned
    /\ WindowMode
    /\ \E i, j \in DOMAIN Available :
          /\ i < j
          /\ ~Available[i].is_reasonable
          /\ Available[j].is_reasonable

---------------------------------------------------------------------------
(* Conflict resolutions *)

ConflictResolutions == search.result.conflict_resolutions

\* hour of the day of an instant in the target zone of the search
TargetHour(t) ==
    ((Inst(t) + ZoneOffset(search.timezone_str)) % DayMinutes) \div HourMinutes

\* C24: every conflict-resolution alternative starts within working hours
\* [09:00,18:00) of the target zone; a 'before' alternative is
\* [busy.start - duration, busy.start) and starts at or after window_start,
\* an 'after' alternative is [busy.end, busy.end + duration) and ends at or
\* before window_end, whatever zone the busy interval is stored in.
C24_ResolutionsInTargetWorkingHours ==
    Returned =>
        \A i \in DOMAIN ConflictResolutions :
            LET r == ConflictResolutions[i]
                slot == r.suggested_time.target_slot
            IN  /\ WorkStartHour <= TargetHour(slot[1])
                /\ TargetHour(slot[1]) < WorkEndHour
                /\ Inst(slot[2]) = Inst(slot[1]) + search.duration
                /\ r.type = "before_conflict" =>
                      /\ Inst(slot[2]) = Inst(r.conflict_with[1])
                      /\ AtOrBefore(search.result.start_date, slot[1])
                /\ r.type = "after_conflict" =>
                      /\ Inst(slot[1]) = Inst(r.conflict_with[2])
                      /\ AtOrBefore(slot[2], search.result.end_date)

---------------------------------------------------------------------------
(* First overlap wins *)

\* the fetched busy intervals that overlap a slot
OverlappingBusy(slot) == {b \in SeqRange(FetchedBusy) : SlotOverlapsBusy(slot, b)}

\* C25: first overlap wins: the busy interval recorded in a conflict record,
\* the one the under-2-hours test was applied to, is an earliest-starting
\* busy interval among those that overlap the slot; the other overlapping
\* intervals, whatever their length, play no part.
C25_FirstOverlapWins ==
    Returned =>
        \A c \in SeqRange(ConflictPossible) :
            /\ c.conflict_with \in OverlappingBusy(c.slot.target_slot)
            /\ \A b \in OverlappingBusy(c.slot.target_slot) :
                  Inst(c.conflict_with[1]) <= Inst(b[1])
            /\ Inst(c.conflict_with[2]) - Inst(c.conflict_with[1]) < MovableMinutes

\* a conflict record whose slot overlaps its short busy interval and a
\* later, long one
C25_Witness ==
    /\ Returned
    /\ \E c \in SeqRange(ConflictPossible) :
          \E b \in OverlappingBusy(c.slot.target_slot) :
              /\ Inst(c.conflict_with[1]) < Inst(b[1])
              /\ Inst(b[2]) - Inst(b[1]) >= MovableMinutes

---------------------------------------------------------------------------
(* Termination of the scans *)

\* an iteration that stays in its loop moves current forward by at least
\* one 30-minute step
ScanAdvances ==
    (scan.running /\ scan'.running /\ scan'.iterations = scan.iterations + 1) =>
        Inst(scan'.current) - Inst(scan.current) >= SlotStep

\* the number of iterations a loop can make within its window
IterationBound ==
    IF scan.kind = "dates" THEN scan.pass * StepsPerDay
    ELSE IF Before(scan.first, scan.end_date)
    THEN CeilDiv(Inst(scan.end_date) - Inst(scan.first), SlotStep)
    ELSE 0

\* C26: every scan terminates: in suggest_time_slots (both modes) and in
\* _find_prep_slot the scan instant strictly increases on every loop
\* iteration (30-minute step, snap to 09:00, or jump to the next day at
\* 09:00), the number of iterations stays within window length / 30 minutes
\* (18 per listed date), and a loop that runs comes to its end.
C26_EveryScanTerminates ==
    /\ [][ScanAdvances]_vars
    /\ [](scan.iterations <= IterationBound)
    /\ (scan.running ~> ~scan.running)

\* a 14-day window scan that began late on a Saturday has ended after more
\* than a hundred iterations, among them jumps over the weekend, snaps to
\* 09:00 and 30-minute steps
C26_Witness ==
    /\ scan.loop = "done"
    /\ scan.kind = "range"
    /\ Weekday(scan.first) = 5
    /\ scan.iterations > 100
    /\ scan.iterations > Len(scan.visited)

---------------------------------------------------------------------------
(* Prep slots of one suggestion *)

\* the prep slots a suggestion found, in the order of its entries
FoundPrepSlots(s) ==
    LET Found(e) == e.slot /= <<>>
        entries == SelectSeq(s.prep_slots, Found)
    IN  [i \in DOMAIN entries |-> entries[i].slot]

\* C27: within one suggestion the prep slots that were found appear in
\* prep-task order and do not overlap: each starts at least one hour after
\* the previously found one ends, none starts before now, and each starts on
\* a weekday at an hour in [9,18).
C27_PrepSlotsOrderedAndApart ==
    Planned =>
        \A s \in SeqRange(Suggestions) :
            LET found == FoundPrepSlots(s)
            IN  /\ \A i \in 1..(Len(found) - 1) :
                      Inst(found[i + 1][1]) >= Inst(found[i][2]) + HourMinutes
                /\ \A i, j \in DOMAIN found :
                      i < j => Inst(found[i][2]) <= Inst(found[j][1])
                /\ \A i \in DOMAIN found :
                      /\ Inst(found[i][1]) >= plan.now
                      /\ Weekday(found[i][1]) < 5
                      /\ WorkStartHour <= Hour(found[i][1])
                      /\ Hour(found[i][1]) < WorkEndHour
                      /\ Inst(found[i][2]) - Inst(found[i][1]) =
                            SelectSeq(s.prep_slots, LAMBDA e : e.slot /= <<>>)[i].task.duration_hours
                                * HourMinutes

\* a suggestion with three found prep slots, the second of which starts
\* exactly one hour after the first ends
C27_Witness ==
    /\ Planned
    /\ \E s \in SeqRange(Suggestions) :
          LET found == FoundPrepSlots(s)
          IN  /\ Len(found) = 3
              /\ Inst(found[2][1]) = Inst(found[1][2]) + HourMinutes

---------------------------------------------------------------------------
(* Repeated conflict resolutions *)

\* C30: the 'conflict_resolutions' list holds no two entries with the same
\* type and the same suggested target slot, also when several of the first
\* three conflict records refer to the same busy interval.
C30_NoRepeatedResolution ==
    Returned =>
        \A i, j \in DOMAIN ConflictResolutions :
            i /= j =>
                \/ ConflictResolutions[i].type /= ConflictResolutions[j].type
                \/ ConflictResolutions[i].suggested_time.target_slot
                       /= ConflictResolutions[j].suggested_time.target_slot

---------------------------------------------------------------------------
(* Properties of the calendar monitor *)

\* a 'Prep: ...' event that names the event is on the calendar before it
PrepOnCalendarFor(e) ==
    \E c \in calendar :
        /\ Within(<<"Prep:">>, Words(c.summary))
        /\ Within(LowerWords(Words(e.summary)), LowerWords(Words(c.summary)))
        /\ c.start < e.start

C28_ProcessedOnlyWithPrepEvents ==
    monitor.called =>
        \A e \in calendar :
            /\ e.id \in monitor.processed_events \ monitor.before => PrepOnCalendarFor(e)
            /\ (e.id \in monitor.fetched /\ needs_prep(e)
                   /\ e.id \notin monitor.processed_events) => e.id \in monitor.attempted

\* a second check without auto_create marks one event for its prep event
\* and takes up another that no earlier check could mark
C28_Witness ==
    /\ monitor.called
    /\ monitor.checks > 1
    /\ ~monitor.auto_create
    /\ monitor.detected /= {}
    /\ \E e \in calendar :
         /\ e.id \in monitor.attempted
         /\ e.id \notin monitor.processed_events
         /\ ~PrepOnCalendarFor(e)

\* C29: an event made by create_prep_events is not among the events a check
\* selects as needing prep.
C29_PrepEventsNotSelected ==
    monitor.called =>
        \A c \in calendar :
            (c.id[1] = "api" /\ Within(<<"Prep:">>, Words(c.summary)))
                => c.id \notin monitor.attempted

====
